---- MODULE Spec2Model ----
(***************************************************************************)
(* The real-time layer of the Zoq client: the Messages component (which    *)
(* owns the socket, the visible message log, callActive / callType) and    *)
(* the VideoCall component it renders while a call is active               *)
(* (VideoCall.jsx).                                                        *)
(*                                                                         *)
(* Specifications.  Spec follows the call handling of one client, with the *)
(* relay and the other party as its environment; the socket and the        *)
(* message log stay as they are after construction.  DuoFair runs a call   *)
(* between two clients through the relay.  ChanSpec follows what the       *)
(* socket is given to send, by a call and by the message input.  MsgSpec   *)
(* follows the message log: thread switches, loads, sends, inbound events. *)
(* ToggleSpec adds the mute and video buttons to the call handling.        *)
(* SubSpec follows the socket's handlers while sessions come and go.       *)
(* ConvSpec follows the conversation list and its loads, AppSpec the       *)
(* stored token, the user and the view of App (App.js) from page load on.  *)
(*                                                                         *)
(* A "session" is one mounted instance of VideoCall.  A session outlives   *)
(* its unmount in the model because its pending getUserMedia promise, its  *)
(* peer object and the closures it handed to the peer outlive it in the    *)
(* program.                                                                *)
(*                                                                         *)
(* Closures.  initializeCall runs from the mount effect (deps []), so it,  *)
(* createPeer, the peer's event handlers, the socket handlers and the      *)
(* unmount cleanup are all the functions of the FIRST render: in them      *)
(* localStream is the initial state value null, and recipientId is the     *)
(* prop of the first render.  Only the buttons (onClick) use the functions *)
(* of the latest render.  peerRef is a ref and is therefore seen           *)
(* up to date by every closure.  In Messages the new_message handler is    *)
(* registered by the mount effect (deps []) and sees the userId of the     *)
(* first render; the continuation of sendMessage after its await sees the  *)
(* messages, userId and newMessage of the render it was called in.         *)
(*                                                                         *)
(* simple-peer (library): destroy() is a no-op on a destroyed peer and     *)
(* otherwise destroys the peer and emits 'close'; a failure inside the     *)
(* library destroys the peer and emits 'error' then 'close'; signal() on a *)
(* destroyed peer throws.                                                  *)
(*                                                                         *)
(* socket.io-client (library): emit() on a socket that is not connected    *)
(* keeps the event in a send buffer that is sent when the transport        *)
(* connects; an inbound event without a handler is dropped.                *)
(*                                                                         *)
(* React: a state update made in a button handler is rendered within the   *)
(* same step; one made from a peer event is rendered by a later step       *)
(* (Commit).  The re-render that follows setLocalStream is taken together  *)
(* with the continuation of initializeCall that calls it.  Updates of the  *)
(* message log are rendered within the step that makes them.               *)
(***************************************************************************)
EXTENDS Integers, Sequences, FiniteSets, TLC

\* Bounds of the model.
MaxSessions == 2
MaxEmitted == 2
MaxTime == 2
MaxLog == 2
MaxWire == 3
MaxPosts == 1
MaxConvLoads == 2
MaxConvIssued == 3
MaxRequests == 3

Sessions == 1..MaxSessions
\* The users the relay can deliver events from, and those whose thread the
\* local user opens (and so can call).
Users == {"A", "B"}
Threads == {"A"}
NoUser == "none"
Kinds == {"audio", "video"}
CallTypes == {"audio", "video"}
Descriptor == "sdp"
Candidate == "cand"
NullCandidate == "null"
Signals == {Descriptor, Candidate}
CallEvents == {"incoming_call", "call_accepted", "ice_candidate"}
\* Every event type the one socket has handlers for: VideoCall's three and
\* the new_message handler of Messages' mount effect.
SocketEvents == CallEvents \cup {"new_message"}
\* The owner of the new_message handler (sessions are numbered from 1).
MessagesHandler == 0
\* The handlers on the socket once Messages' mount effect has run.
MountListeners ==
  [e \in SocketEvents |-> IF e = "new_message" THEN {MessagesHandler} ELSE {}]

VARIABLES
  callActive,   \* Messages: useState(false)
  callType,     \* Messages: useState(null)
  userId,       \* Messages: useParams().userId, NoUser when the route has none
  mounted,      \* the session whose VideoCall is mounted, 0 when none is
  nsessions,    \* number of VideoCall instances mounted so far
  sess,         \* per session: the state of one VideoCall instance
  listeners,    \* socket: event type -> sessions with a handler registered
  emitted,      \* socket: the events emitted so far, in order
  outcome       \* what the last handler run did: see Outcomes

VARIABLES
  responder,    \* the client of the user who is called: its program state
  delivered,    \* relay: how many of the emitted events it has passed on
  connected,    \* socket.connected
  wire,         \* socket: the events sent on the present connection, in order
  sendBuffer,   \* socket: the events emitted while it was not connected
  messages,     \* Messages: useState([]), the visible log
  loads,        \* the partners with a GET /messages/:partner in flight
  posts,        \* the POST /messages in flight, each with its continuation
  convLoads,    \* the number of GET /messages/conversations in flight
  mountUserId,  \* userId as the closures of the mount effect see it
  now,          \* the clock of the client, read by new Date()
  srvNow        \* created_at of the last message the server has made

VARIABLES
  conversations, \* Messages: useState([]), the conversation list as shown
  convIssued,    \* the number of GET /messages/conversations issued so far
  convReqs,      \* per request number: how far it is, and its response
  srvLast        \* server: partner -> last_message_time of the conversation

VARIABLES
  app            \* App: localStorage, its React state and its REST requests

callvars == <<callActive, callType, userId, mounted, nsessions, sess,
              listeners, emitted, outcome>>
duovars == <<responder, delivered>>
chanvars == <<connected, wire, sendBuffer>>
msgvars == <<messages, loads, posts, convLoads, mountUserId, now, srvNow>>
convvars == <<conversations, convIssued, convReqs, srvLast>>
extvars == <<convvars, app>>
vars == <<callvars, duovars, chanvars, msgvars, extvars>>

\* One VideoCall instance before it is mounted (VideoCall.jsx 8-15).
NoSession ==
  [acq |-> "none",
   callType |-> "none",
   recipientId |-> NoUser,
   localStream |-> FALSE,
   remoteStream |-> FALSE,
   isMuted |-> FALSE,
   isVideoOff |-> FALSE,
   tracks |-> [k \in Kinds |-> "absent"],
   enabled |-> [k \in Kinds |-> TRUE],
   peer |-> "none",
   initiator |-> FALSE,
   fed |-> {},
   nsignals |-> 0,
   callStatus |-> "none",
   onEnd |-> 0]

\* "ignored e": the handler of socket event e dropped the event it was given;
\* "threw signal", "threw cleanup": the handler ended by an exception thrown
\* in that call; "hangup": the end-call button's handler ran to its end;
\* "none": anything else.
Ignored(event) == "ignored " \o event
Throws == {"threw signal", "threw cleanup"}
Outcomes == {"none", "hangup"} \cup {Ignored(e) : e \in CallEvents} \cup Throws

\* The program state as one value, as the next handler to run finds it.
St ==
  [callActive |-> callActive, callType |-> callType, userId |-> userId,
   mounted |-> mounted, nsessions |-> nsessions, sess |-> sess,
   listeners |-> listeners, emitted |-> emitted, outcome |-> "none"]

\* The state a handler leaves behind becomes the state of the call variables.
SetCall(t) ==
  LET r == t
  IN /\ callActive' = r.callActive
     /\ callType' = r.callType
     /\ userId' = r.userId
     /\ mounted' = r.mounted
     /\ nsessions' = r.nsessions
     /\ sess' = r.sess
     /\ listeners' = r.listeners
     /\ emitted' = r.emitted
     /\ outcome' = r.outcome

\* A step of the call handling alone.
Apply(t) == SetCall(t) /\ UNCHANGED <<duovars, extvars, chanvars, msgvars>>

\* The state after construction, with no thread open.
InitSt ==
  [callActive |-> FALSE, callType |-> "none", userId |-> NoUser,
   mounted |-> 0, nsessions |-> 0, sess |-> [s \in Sessions |-> NoSession],
   listeners |-> MountListeners, emitted |-> <<>>,
   outcome |-> "none"]

\* Messages as it is once mounted at /messages/u (/messages when u is
\* NoUser): its mount effect has created the socket and issued
\* loadConversations, its userId effect has issued loadMessages(u).
MessagesMounted(u) ==
  /\ connected = FALSE
  /\ wire = <<>>
  /\ sendBuffer = <<>>
  /\ messages = <<>>
  /\ loads = IF u = NoUser THEN {} ELSE {u}
  /\ posts = {}
  /\ convLoads = 1
  /\ mountUserId = u
  /\ now = 1
  /\ srvNow = 1

\* App.js.  localStorage holds no token (getItem returns null) or one the
\* server once issued; the server still accepts the tokens in ValidTokens.
NoToken == "null"
Tokens == {"t0", "t1"}
ValidTokens == {"t1"}
\* A request that carries no Authorization header.
NoHeader == "absent"
\* useState(null) of user, and the user object the server returns.
NoOne == "null"
Account == "account"
Paths == {"/auth/me", "/auth/login", "/posts/feed", "/auth/profile"}

\* The axios request interceptor, and the request going out.
interceptor(a, path) ==
  [path |-> path,
   authorization |-> IF a.token # NoToken THEN a.token ELSE NoHeader]

request(a, path) == [a EXCEPT !.requests = Append(@, interceptor(a, path))]

\* App before its mount effect has run, with what localStorage holds.
AppStart(token) ==
  [token |-> token, user |-> NoOne, loading |-> TRUE, me |-> "unrun",
   login |-> FALSE, put |-> FALSE, requests |-> <<>>, vouched |-> FALSE]

\* checkAuth() up to its await, or to its end when no token is stored.
checkAuth(a) ==
  IF a.token # NoToken
  THEN [request(a, "/auth/me") EXCEPT !.me = "pending"]
  ELSE [a EXCEPT !.me = "none", !.loading = FALSE]

\* checkAuth() after the await, the try branch.
checkAuthAccepted(a) ==
  [a EXCEPT !.user = Account, !.me = "accepted", !.loading = FALSE,
            !.vouched = TRUE]

\* A catch branch that leaves the token in localStorage.
checkAuthRejected_KeepsToken(a) ==
  [a EXCEPT !.me = "rejected", !.loading = FALSE]

\* checkAuth() after the await, the catch branch.
checkAuthRejected(a) ==
  [a EXCEPT !.token = NoToken, !.me = "rejected", !.loading = FALSE]

handleLogin(a, token) ==
  [a EXCEPT !.token = token, !.user = Account, !.vouched = TRUE]

handleLogout(a) == [a EXCEPT !.token = NoToken, !.user = NoOne]

\* What App renders: the spinner while loading, then AuthPage or MainLayout.
View(a) ==
  IF a.loading THEN "loading"
  ELSE IF a.user = NoOne THEN "unauthenticated" ELSE "authenticated"

\* App once the user is signed in, as it is while Messages is on screen.
AppSignedIn ==
  [AppStart("t1") EXCEPT !.user = Account, !.loading = FALSE,
                         !.me = "accepted", !.vouched = TRUE,
                         !.requests = << [path |-> "/auth/me",
                                          authorization |-> "t1"] >>]

\* The conversations the server holds when Messages mounts, by the time of
\* their last message (both before the client's clock starts).
ServerStart == [p \in Users |-> IF p = "A" THEN -1 ELSE 0]

ConvStates == {"none", "sent", "served", "resolved", "failed"}
NoRequest == [state |-> "none", data |-> <<>>]
ConvRequests == 1..MaxConvIssued

\* The conversation list once Messages' mount effect has run: the list is
\* empty and the first loadConversations is in flight.
ConvMounted ==
  /\ conversations = <<>>
  /\ convIssued = 1
  /\ convReqs = [n \in ConvRequests |->
                   IF n = 1 THEN [NoRequest EXCEPT !.state = "sent"]
                   ELSE NoRequest]
  /\ srvLast = ServerStart

\* Messages at /messages/u; no VideoCall has been rendered yet.
CallInit(u) ==
  /\ callActive = FALSE
  /\ callType = "none"
  /\ userId = u
  /\ mounted = 0
  /\ nsessions = 0
  /\ sess = [s \in Sessions |-> NoSession]
  /\ listeners = MountListeners
  /\ emitted = <<>>
  /\ outcome = "none"

Init ==
  /\ responder = InitSt
  /\ delivered = 0
  /\ MessagesMounted(NoUser)
  /\ ConvMounted
  /\ app = AppSignedIn
  /\ CallInit(NoUser)

----------------------------------------------------------------------------
\* React state setters of a VideoCall instance: dropped once it is unmounted.

setLocalStream(st, s) ==
  IF st.mounted = s THEN [st EXCEPT !.sess[s].localStream = TRUE] ELSE st

setRemoteStream(st, s) ==
  IF st.mounted = s THEN [st EXCEPT !.sess[s].remoteStream = TRUE] ELSE st

setCallStatus(st, s, status) ==
  IF st.mounted = s THEN [st EXCEPT !.sess[s].callStatus = status] ELSE st

\* localStream.getTracks().forEach(track => track.stop())
stopTracks(st, s) ==
  [st EXCEPT !.sess[s].tracks =
     [k \in Kinds |-> IF @[k] = "live" THEN "stopped" ELSE @[k]]]

\* The onEnd prop: () => setCallActive(false), Messages is still mounted.
onEnd(st, s) ==
  [st EXCEPT !.callActive = FALSE, !.sess[s].onEnd = @ + 1]

RECURSIVE endCall(_, _, _)
RECURSIVE cleanup(_, _, _)
RECURSIVE destroy(_, _)

\* peer.on('close', () => endCall()): endCall of the first render, whose
\* localStream is null.
onPeerClose(st, s) == endCall(st, s, FALSE)

\* simple-peer: a peer that is destroyed drops its connection, and with it
\* every descriptor and candidate it was fed.
destroyed(st, s) ==
  [st EXCEPT !.sess[s].peer = "destroyed", !.sess[s].fed = {},
             !.sess[s].nsignals = 0]

\* simple-peer destroy(): nothing on a destroyed peer, else 'close' is emitted.
destroy(st, s) ==
  IF st.sess[s].peer = "live" THEN onPeerClose(destroyed(st, s), s) ELSE st

\* cleanup that calls peerRef.current.destroy() without the null check.
cleanup_NoPeerGuard(st, s, localStream) ==
  LET a == IF localStream THEN stopTracks(st, s) ELSE st
  IN IF a.sess[s].peer # "none" THEN destroy(a, s)
     ELSE [a EXCEPT !.outcome = "threw cleanup"]

\* cleanup with the localStream its closure sees (TRUE: the acquired stream).
cleanup(st, s, localStream) ==
  LET a == IF localStream THEN stopTracks(st, s) ELSE st
  IN IF a.sess[s].peer # "none" THEN destroy(a, s) ELSE a

endCall(st, s, localStream) ==
  LET c == cleanup(st, s, localStream)
  IN IF c.outcome \in Throws THEN c ELSE onEnd(c, s)

\* Unmount with a socket cleanup that removes the handlers of every event
\* type instead of the three it names.
Unmount_OffAll(st) ==
  LET s == st.mounted
      c == cleanup(st, s, FALSE)
  IN [c EXCEPT !.mounted = 0,
               !.listeners = [e \in SocketEvents |-> {}],
               !.sess[s].localStream = FALSE,
               !.sess[s].remoteStream = FALSE,
               !.sess[s].isMuted = FALSE,
               !.sess[s].isVideoOff = FALSE,
               !.sess[s].callStatus = "none"]

\* VideoCall unmounts: the cleanups of both effects, closures of the first
\* render (socket.off(event) removes every handler of the event, and of no
\* other event); the React state of the instance is gone with it.
Unmount(st) ==
  LET s == st.mounted
      c == cleanup(st, s, FALSE)
  IN [c EXCEPT !.mounted = 0,
               !.listeners = [e \in SocketEvents |->
                                IF e \in CallEvents THEN {} ELSE @[e]],
               !.sess[s].localStream = FALSE,
               !.sess[s].remoteStream = FALSE,
               !.sess[s].isMuted = FALSE,
               !.sess[s].isVideoOff = FALSE,
               !.sess[s].callStatus = "none"]

\* VideoCall mounts: initial state, both effects run, getUserMedia is pending.
Mount(st) ==
  LET s == st.nsessions + 1
  IN [st EXCEPT !.nsessions = s,
                !.mounted = s,
                !.sess[s] = [NoSession EXCEPT !.acq = "pending",
                                              !.callType = st.callType,
                                              !.recipientId = st.userId,
                                              !.isVideoOff = (st.callType = "audio"),
                                              !.callStatus = "Connecting..."],
                !.listeners = [e \in SocketEvents |->
                                 IF e \in CallEvents THEN @[e] \cup {s}
                                 ELSE @[e]]]

\* Messages renders VideoCall exactly when callActive && userId.
ShowsCall(st) == st.callActive /\ st.userId # NoUser

Render(st) ==
  IF st.mounted # 0 /\ ~ShowsCall(st) THEN Unmount(st)
  ELSE IF st.mounted = 0 /\ ShowsCall(st) THEN Mount(st)
  ELSE st

\* Render would mount a VideoCall beyond the bound of the model.
OverBound(st) ==
  st.mounted = 0 /\ ShowsCall(st) /\ st.nsessions >= MaxSessions

----------------------------------------------------------------------------
\* VideoCall: call setup, the peer's event handlers, the socket handlers.

\* getUserMedia(constraints): audio always, video for a video call.
AcquiredTracks(type) ==
  [k \in Kinds |-> IF k = "audio" \/ type = "video" THEN "live" ELSE "absent"]

\* new SimplePeer({initiator, trickle: true, stream}); peerRef.current = peer
createPeer(st, s, initiator) ==
  [st EXCEPT !.sess[s].peer = "live", !.sess[s].initiator = initiator]

\* initializeCall after the await: the try branch.
initializeCallResolved(st, s) ==
  LET a == [st EXCEPT !.sess[s].acq = "ok",
                      !.sess[s].tracks = AcquiredTracks(st.sess[s].callType)]
      b == setLocalStream(a, s)
      c == createPeer(b, s, TRUE)
  IN setCallStatus(c, s, "Calling...")

\* A catch branch that goes on to create the peer without a stream.
initializeCallRejected_CreatesPeer(st, s) ==
  createPeer(setCallStatus([st EXCEPT !.sess[s].acq = "failed"], s,
                           "Failed to access camera/microphone"), s, TRUE)

\* initializeCall after the await: the catch branch.
initializeCallRejected(st, s) ==
  setCallStatus([st EXCEPT !.sess[s].acq = "failed"], s,
                "Failed to access camera/microphone")

\* A signal handler that forwards the descriptor but not the candidates.
onPeerSignal_DescriptorOnly(st, s, signal) ==
  IF signal # Descriptor THEN st
  ELSE [st EXCEPT !.emitted = Append(@,
          [event |-> "call_user",
           to_user_id |-> st.sess[s].recipientId,
           signal |-> signal,
           type |-> IF st.sess[s].initiator THEN "offer" ELSE "answer",
           session |-> s])]

\* peer.on('signal'): the socket prop is set whenever a VideoCall is rendered.
onPeerSignal(st, s, signal) ==
  [st EXCEPT !.emitted = Append(@,
     [event |-> "call_user",
      to_user_id |-> st.sess[s].recipientId,
      signal |-> signal,
      type |-> IF st.sess[s].initiator THEN "offer" ELSE "answer",
      session |-> s])]

\* peer.on('stream')
onPeerStream(st, s) ==
  setCallStatus(setRemoteStream(st, s), s, "Connected")

\* peer.on('error')
onPeerError(st, s) == setCallStatus(st, s, "Connection error")

\* simple-peer signal(data); sender is who sent the data through the relay,
\* which the program only learns for incoming_call (from_user_id).
signal(st, s, data, sender) ==
  IF st.sess[s].peer = "destroyed"
  THEN [st EXCEPT !.outcome = "threw signal"]
  ELSE [st EXCEPT !.sess[s].fed = @ \cup {[signal |-> data, from |-> sender]}]

handleIncomingCall(st, s, data, from_user_id) ==
  IF from_user_id = st.sess[s].recipientId /\ st.sess[s].peer # "none"
  THEN signal(st, s, data, from_user_id)
  ELSE [st EXCEPT !.outcome = Ignored("incoming_call")]

handleCallAccepted(st, s, data, sender) ==
  IF st.sess[s].peer # "none"
  THEN signal(st, s, data, sender)
  ELSE [st EXCEPT !.outcome = Ignored("call_accepted")]

handleIceCandidate(st, s, candidate, sender) ==
  IF st.sess[s].peer # "none" /\ candidate # NullCandidate
  THEN signal(st, s, candidate, sender)
  ELSE [st EXCEPT !.outcome = Ignored("ice_candidate")]

\* simple-peer: the next signal a peer produces, its descriptor first.
NextSignal(p) == IF p.nsignals = 0 THEN Descriptor ELSE Candidate

\* simple-peer: remote media can arrive once the peer has sent its descriptor
\* and has been fed the counterpart's descriptor and a candidate of it.
CanConnect(p) ==
  /\ p.peer = "live"
  /\ p.nsignals >= 1
  /\ [signal |-> Descriptor, from |-> p.recipientId] \in p.fed
  /\ [signal |-> Candidate, from |-> p.recipientId] \in p.fed

\* A mute handler that switches the microphone off, whatever it was.
toggleMute_SwitchOff(st, s) ==
  IF ~st.sess[s].localStream THEN st
  ELSE [st EXCEPT !.sess[s].enabled["audio"] = FALSE,
                  !.sess[s].isMuted = TRUE]

\* A mute handler that flips the flag and leaves the tracks alone.
toggleMute_FlagOnly(st, s) ==
  IF ~st.sess[s].localStream THEN st
  ELSE [st EXCEPT !.sess[s].isMuted = ~@]

\* toggleMute of the latest render: every audio track of the stream.
toggleMute(st, s) ==
  IF ~st.sess[s].localStream THEN st
  ELSE [st EXCEPT !.sess[s].enabled =
                     [k \in Kinds |-> IF k = "audio" /\ st.sess[s].tracks[k] # "absent"
                                      THEN ~@[k] ELSE @[k]],
                  !.sess[s].isMuted = ~@]

\* A video handler that tells the counterpart: it emits on the socket.
toggleVideo_Signals(st, s) ==
  IF ~(st.sess[s].localStream /\ st.callType = "video") THEN st
  ELSE [st EXCEPT !.sess[s].enabled["video"] = ~@,
                  !.sess[s].isVideoOff = ~@,
                  !.emitted = Append(@,
                     [event |-> "call_user",
                      to_user_id |-> st.sess[s].recipientId,
                      signal |-> Descriptor, type |-> "offer", session |-> s])]

\* A video handler without the test of the call type.
toggleVideo_AnyCallType(st, s) ==
  IF ~st.sess[s].localStream THEN st
  ELSE [st EXCEPT !.sess[s].enabled =
                     [k \in Kinds |-> IF k = "video" /\ st.sess[s].tracks[k] # "absent"
                                      THEN ~@[k] ELSE @[k]],
                  !.sess[s].isVideoOff = ~@]

\* toggleVideo of the latest render: callType is the prop, Messages' state.
toggleVideo(st, s) ==
  IF ~(st.sess[s].localStream /\ st.callType = "video") THEN st
  ELSE [st EXCEPT !.sess[s].enabled =
                     [k \in Kinds |-> IF k = "video" /\ st.sess[s].tracks[k] # "absent"
                                      THEN ~@[k] ELSE @[k]],
                  !.sess[s].isVideoOff = ~@]

----------------------------------------------------------------------------
\* Actions.

\* Messages.startCall(type), from the call buttons of an open thread.  A
\* behaviour of the model starts calls of one type only, audio or video.
StartCall(type) ==
  /\ mounted = 0
  /\ userId # NoUser
  /\ nsessions < MaxSessions
  /\ callType \in {"none", type}
  /\ Apply(Render([St EXCEPT !.callType = type, !.callActive = TRUE]))

\* The route changes to /messages/u, or to /messages when u is NoUser.
Navigate(u) ==
  /\ u # userId
  /\ ~OverBound([St EXCEPT !.userId = u])
  /\ Apply(Render([St EXCEPT !.userId = u]))

GetUserMediaResolve(s) ==
  /\ sess[s].acq = "pending"
  /\ Apply(initializeCallResolved(St, s))

GetUserMediaReject(s) ==
  /\ sess[s].acq = "pending"
  /\ Apply(initializeCallRejected(St, s))

PeerSignal(s) ==
  /\ sess[s].peer = "live"
  /\ Len(emitted) < MaxEmitted
  /\ Apply(onPeerSignal([St EXCEPT !.sess[s].nsignals = @ + 1], s,
                        NextSignal(sess[s])))

\* 'stream' on the peer of an unmounted instance changes nothing: its setters
\* are dropped.
PeerStream(s) ==
  /\ CanConnect(sess[s])
  /\ mounted = s
  /\ ~sess[s].remoteStream
  /\ Apply(onPeerStream(St, s))

\* The connection fails: the library destroys the peer, 'error' then 'close'.
PeerError(s) ==
  /\ sess[s].peer = "live"
  /\ Apply(onPeerClose(onPeerError(destroyed(St, s), s), s))

\* The remote side hangs up or the connection drops: destroyed, 'close'.
PeerClose(s) ==
  /\ sess[s].peer = "live"
  /\ Apply(destroy(St, s))

IncomingCall(from_user_id, data) ==
  \E s \in listeners["incoming_call"] :
    Apply(handleIncomingCall(St, s, data, from_user_id))

CallAccepted(sender, data) ==
  \E s \in listeners["call_accepted"] :
    Apply(handleCallAccepted(St, s, data, sender))

IceCandidate(sender, candidate) ==
  \E s \in listeners["ice_candidate"] :
    Apply(handleIceCandidate(St, s, candidate, sender))

\* The end-call button: endCall of the latest render, then React re-renders
\* Messages within the same event.
EndCallClick ==
  /\ mounted # 0
  /\ LET e == endCall(St, mounted, sess[mounted].localStream)
     IN Apply(IF e.outcome \in Throws THEN e
              ELSE Render([e EXCEPT !.outcome = "hangup"]))

\* React commits the re-render that an onEnd outside a React event scheduled.
Commit ==
  /\ mounted # 0
  /\ ~ShowsCall(St)
  /\ Apply(Render(St))

Next ==
  \/ \E type \in CallTypes : StartCall(type)
  \/ \E u \in Threads \cup {NoUser} : Navigate(u)
  \/ \E s \in Sessions : GetUserMediaResolve(s)
  \/ \E s \in Sessions : GetUserMediaReject(s)
  \/ \E s \in Sessions : PeerSignal(s)
  \/ \E s \in Sessions : PeerStream(s)
  \/ \E s \in Sessions : PeerError(s)
  \/ \E s \in Sessions : PeerClose(s)
  \/ \E u \in Users, d \in Signals : IncomingCall(u, d)
  \/ \E u \in Users, d \in Signals : CallAccepted(u, d)
  \/ \E u \in Users, c \in {Candidate, NullCandidate} : IceCandidate(u, c)
  \/ EndCallClick
  \/ Commit

Spec == Init /\ [][Next]_vars

\* The mute button of the call view.
ToggleMute ==
  /\ mounted # 0
  /\ Apply(toggleMute(St, mounted))

\* The video button, which the call view shows in a video call only.
ToggleVideo ==
  /\ mounted # 0
  /\ callType = "video"
  /\ Apply(toggleVideo(St, mounted))

\* The call view with its three buttons; the counterpart's answer arrives as
\* call_accepted.
ToggleNext ==
  \/ \E type \in CallTypes : StartCall(type)
  \/ \E u \in Threads \cup {NoUser} : Navigate(u)
  \/ \E s \in Sessions : GetUserMediaResolve(s)
  \/ \E s \in Sessions : GetUserMediaReject(s)
  \/ \E s \in Sessions : PeerSignal(s)
  \/ \E s \in Sessions : PeerStream(s)
  \/ \E s \in Sessions : PeerError(s)
  \/ \E s \in Sessions : PeerClose(s)
  \/ \E d \in Signals : CallAccepted("A", d)
  \/ EndCallClick
  \/ Commit
  \/ ToggleMute
  \/ ToggleVideo

ToggleSpec == Init /\ [][ToggleNext]_vars

TypeOK ==
  /\ callActive \in BOOLEAN
  /\ callType \in CallTypes \cup {"none"}
  /\ userId \in Threads \cup {NoUser}
  /\ mounted \in 0..nsessions
  /\ nsessions \in 0..MaxSessions
  /\ \A e \in CallEvents : listeners[e] = IF mounted = 0 THEN {} ELSE {mounted}
  /\ outcome \in Outcomes

----------------------------------------------------------------------------
\* A run of two clients.  The client modelled above is the one that calls;
\* `responder` is the program state of the client of the user who is called.
\* Both run the same program.  The user who is called takes no action of
\* their own in the run (they start no call).

\* user.id of the user of the calling client.
Self == "me"

\* socket.io: an inbound event is passed to the handlers registered for it,
\* and dropped when there is none.  Messages registers handlers for 'connect'
\* and 'new_message' only; those of incoming_call are VideoCall's.
onIncomingCall(st, data, from_user_id) ==
  IF st.listeners["incoming_call"] = {} THEN st
  ELSE handleIncomingCall(st, CHOOSE s \in st.listeners["incoming_call"] : TRUE,
                          data, from_user_id)

\* The relay passes the next call_user event on to the client it is addressed
\* to, as incoming_call {signal, from_user_id}.
RelayDeliver ==
  /\ delivered < Len(emitted)
  /\ delivered' = delivered + 1
  /\ responder' = onIncomingCall(responder, emitted[delivered + 1].signal, Self)
  /\ UNCHANGED <<callvars, chanvars, msgvars, extvars>>

\* What the peer of the calling client can raise.  'stream' needs the
\* descriptor and a candidate of the counterpart (CanConnect), which reach
\* this client only in events the relay passes on from the other client.
DuoPeerEvent(s, event) ==
  CASE event = "stream" -> PeerStream(s)
    [] event = "error" -> PeerError(s)
    [] event = "close" -> PeerClose(s)

\* The called user has the thread of the caller open, or has not.
DuoInit ==
  /\ responder \in {InitSt, [InitSt EXCEPT !.userId = Self]}
  /\ delivered = 0
  /\ MessagesMounted(NoUser)
  /\ ConvMounted
  /\ app = AppSignedIn
  /\ CallInit(NoUser)

DuoNext ==
  \/ StartCall("video")
  \/ \E u \in Threads \cup {NoUser} : Navigate(u)
  \/ \E s \in Sessions : GetUserMediaResolve(s)
  \/ \E s \in Sessions : GetUserMediaReject(s)
  \/ \E s \in Sessions : PeerSignal(s)
  \/ \E s \in Sessions, event \in {"stream", "error", "close"} :
       DuoPeerEvent(s, event)
  \/ RelayDeliver
  \/ EndCallClick
  \/ Commit

\* The event loop runs every callback that is due and the relay passes on
\* every event it was given; the users and the network are free not to act.
DuoFair ==
  /\ DuoInit
  /\ [][DuoNext]_vars
  /\ WF_vars(RelayDeliver)
  /\ WF_vars(Commit)
  /\ \A s \in Sessions :
       /\ WF_vars(GetUserMediaResolve(s) \/ GetUserMediaReject(s))
       /\ WF_vars(PeerSignal(s))

----------------------------------------------------------------------------
\* Messages: the socket, the visible log of the open thread, its REST calls.

\* What the message input can hold, and String.prototype.trim of it.
Contents == {"", " ", "hi"}
trim(content) == IF content = " " THEN "" ELSE content

Times == 1..MaxTime

\* A message as the server sends it, in a thread response or in new_message.
ServerMessage(from, to, t) ==
  [id |-> "srv", from_user_id |-> from, to_user_id |-> to, content |-> "hi",
   created_at |-> t]

\* GET /messages/:partner: the thread as the server holds it.
Thread(partnerId) == << ServerMessage(partnerId, Self, 1) >>

\* The message sendMessage builds: id and created_at from the client's clock.
Provisional(to, content) ==
  [id |-> ToString(now), from_user_id |-> Self, to_user_id |-> to,
   content |-> content, created_at |-> now]

\* socket.io emit(event): sent at once on a connected socket, kept in the
\* send buffer of one that is not.
emit(event) ==
  IF connected
  THEN wire' = Append(wire, event) /\ UNCHANGED <<connected, sendBuffer>>
  ELSE sendBuffer' = Append(sendBuffer, event) /\ UNCHANGED <<connected, wire>>

\* loadConversations(): one more GET /messages/conversations in flight.
loadConversations == convLoads' = convLoads + 1

\* The transport connects: the library sends what the send buffer holds and
\* raises 'connect', whose handler emits authenticate {token}.  Which of the
\* two comes first is the library's choice (it differs between its versions).
SocketConnect ==
  /\ ~connected
  /\ connected' = TRUE
  /\ \E handlerFirst \in BOOLEAN :
       wire' = IF handlerFirst THEN <<"authenticate">> \o sendBuffer
               ELSE sendBuffer \o <<"authenticate">>
  /\ sendBuffer' = <<>>
  /\ UNCHANGED <<callvars, duovars, extvars, msgvars>>

\* The transport is lost.
SocketDisconnect ==
  /\ connected
  /\ connected' = FALSE
  /\ wire' = <<>>
  /\ UNCHANGED <<sendBuffer, callvars, duovars, extvars, msgvars>>

\* VideoCall's peer raises 'signal' and the handler emits on the socket.
PeerSignalOnSocket(s) ==
  /\ sess[s].peer = "live"
  /\ Len(emitted) < MaxEmitted
  /\ Len(wire) < MaxWire
  /\ SetCall(onPeerSignal([St EXCEPT !.sess[s].nsignals = @ + 1], s,
                          NextSignal(sess[s])))
  /\ emit("call_user")
  /\ UNCHANGED <<duovars, extvars, msgvars>>

\* The route changes to /messages/u (to /messages when u is NoUser): the
\* component re-renders and its userId effect runs.
OpenThread(u) ==
  /\ u # userId
  /\ ~OverBound([St EXCEPT !.userId = u])
  /\ SetCall(Render([St EXCEPT !.userId = u]))
  /\ loads' = IF u = NoUser THEN loads ELSE loads \cup {u}
  /\ UNCHANGED <<messages, posts, convLoads, mountUserId, now, srvNow>>
  /\ UNCHANGED <<duovars, extvars, chanvars>>

\* loadMessages(partnerId) after the await: the try branch.
LoadMessagesResolve(partnerId) ==
  /\ partnerId \in loads
  /\ loads' = loads \ {partnerId}
  /\ messages' = Thread(partnerId)
  /\ UNCHANGED <<posts, convLoads, mountUserId, now, srvNow>>
  /\ UNCHANGED <<callvars, duovars, extvars, chanvars>>

\* loadMessages(partnerId) after the await: the catch branch (a toast).
LoadMessagesReject(partnerId) ==
  /\ partnerId \in loads
  /\ loads' = loads \ {partnerId}
  /\ UNCHANGED <<messages, posts, convLoads, mountUserId, now, srvNow>>
  /\ UNCHANGED <<callvars, duovars, extvars, chanvars>>

\* loadConversations() after the await, either branch.
LoadConversationsDone ==
  /\ convLoads > 0
  /\ convLoads' = convLoads - 1
  /\ UNCHANGED <<messages, loads, posts, mountUserId, now, srvNow>>
  /\ UNCHANGED <<callvars, duovars, extvars, chanvars>>

\* socket.on('new_message'): the handler registered by the mount effect, a
\* message between the user and partnerId that the server made at time t.
onNewMessage(from, to, t) ==
  /\ connected
  /\ MessagesHandler \in listeners["new_message"]
  /\ t >= srvNow
  /\ Len(messages) < MaxLog
  /\ convLoads < MaxConvLoads
  /\ srvNow' = t
  /\ messages' =
       IF mountUserId # NoUser /\ (from = mountUserId \/ to = mountUserId)
       THEN Append(messages, ServerMessage(from, to, t))
       ELSE messages
  /\ loadConversations
  /\ UNCHANGED <<loads, posts, mountUserId, now>>

NewMessage(from, to, t) ==
  /\ onNewMessage(from, to, t)
  /\ UNCHANGED <<callvars, duovars, extvars, chanvars>>

\* sendMessage() up to its await, with content in the input field.
SendMessage(content) ==
  /\ trim(content) # ""
  /\ userId # NoUser
  /\ Len(messages) < MaxLog
  /\ IF connected
     THEN /\ Len(wire) < MaxWire
          /\ convLoads < MaxConvLoads
          /\ emit("send_message")
          /\ messages' = Append(messages, Provisional(userId, content))
          /\ loadConversations
          /\ UNCHANGED posts
     ELSE /\ Cardinality(posts) < MaxPosts
          /\ posts' = posts \cup {[to_user_id |-> userId, content |-> content,
                                   messages |-> messages]}
          /\ UNCHANGED <<messages, convLoads, chanvars>>
  /\ UNCHANGED <<loads, mountUserId, now, srvNow>>
  /\ UNCHANGED <<callvars, duovars, extvars>>

\* sendMessage() after the await of axios.post: the rest of the try branch,
\* with the messages, userId and newMessage of the render it was called in.
PostResolve(post) ==
  /\ post \in posts
  /\ convLoads < MaxConvLoads
  /\ posts' = posts \ {post}
  /\ messages' = Append(post.messages, Provisional(post.to_user_id, post.content))
  /\ loadConversations
  /\ UNCHANGED <<loads, mountUserId, now, srvNow>>
  /\ UNCHANGED <<callvars, duovars, extvars, chanvars>>

\* sendMessage() after the await of axios.post: the catch branch (a toast).
PostReject(post) ==
  /\ post \in posts
  /\ posts' = posts \ {post}
  /\ UNCHANGED <<messages, loads, convLoads, mountUserId, now, srvNow>>
  /\ UNCHANGED <<callvars, duovars, extvars, chanvars>>

\* The clock of the client advances.
Tick ==
  /\ now < MaxTime
  /\ now' = now + 1
  /\ UNCHANGED <<messages, loads, posts, convLoads, mountUserId, srvNow>>
  /\ UNCHANGED <<callvars, duovars, extvars, chanvars>>

\* Messages is mounted at /messages or at the thread of a user.
MsgInit ==
  /\ responder = InitSt
  /\ delivered = 0
  /\ ConvMounted
  /\ app = AppSignedIn
  /\ \E u \in Users \cup {NoUser} : MessagesMounted(u) /\ CallInit(u)

MsgNext ==
  \/ \E u \in Users \cup {NoUser} : OpenThread(u)
  \/ \E p \in Users : LoadMessagesResolve(p)
  \/ \E p \in Users : LoadMessagesReject(p)
  \/ LoadConversationsDone
  \/ SocketConnect
  \/ SocketDisconnect
  \/ \E p \in Users, t \in Times : NewMessage(p, Self, t)
  \/ \E p \in Users, t \in Times : NewMessage(Self, p, t)
  \/ \E content \in Contents : SendMessage(content)
  \/ \E post \in posts : PostResolve(post)
  \/ \E post \in posts : PostReject(post)
  \/ Tick

MsgSpec == MsgInit /\ [][MsgNext]_vars

\* The signaling channel with both of its users: a call and the message
\* input of the thread that Messages is mounted at.
ChanNext ==
  \/ SocketConnect
  \/ SocketDisconnect
  \/ \E type \in CallTypes : StartCall(type)
  \/ \E s \in Sessions : GetUserMediaResolve(s)
  \/ \E s \in Sessions : PeerSignalOnSocket(s)
  \/ EndCallClick
  \/ \E content \in Contents : SendMessage(content)
  \/ \E post \in posts : PostResolve(post)
  \/ \E post \in posts : PostReject(post)
  \/ LoadConversationsDone

ChanSpec == MsgInit /\ [][ChanNext]_vars

\* The socket's handlers over the life of call sessions: sessions come and
\* go (end button, peer close) while new_message events
\* arrive for Messages.
SubNext ==
  \/ SocketConnect
  \/ \E type \in CallTypes : StartCall(type)
  \/ \E s \in Sessions : GetUserMediaResolve(s)
  \/ \E s \in Sessions : PeerClose(s)
  \/ EndCallClick
  \/ Commit
  \/ \E p \in Users, t \in Times : NewMessage(p, Self, t)
  \/ LoadConversationsDone

SubSpec == MsgInit /\ [][SubNext]_vars

\* GET /messages/conversations as the server answers it: one entry per
\* conversation, the one with the latest message first.
Orders ==
  {q \in [1..Cardinality(Users) -> Users] :
     \A i, j \in DOMAIN q : i # j => q[i] # q[j]}

ServerConversations ==
  LET q == CHOOSE o \in Orders :
             \A i, j \in DOMAIN o : i < j => srvLast[o[i]] > srvLast[o[j]]
  IN [i \in DOMAIN q |->
        [user_id |-> q[i], last_message_time |-> srvLast[q[i]]]]

\* socket.on('new_message') with the conversation list in view: the server
\* has stored a message from a partner at time t, the handler appends it to
\* the open thread's log if it belongs there and calls loadConversations().
ConvNewMessage(from, t) ==
  /\ onNewMessage(from, Self, t)
  /\ \A p \in Users : t > srvLast[p]
  /\ convIssued < MaxConvIssued
  /\ srvLast' = [srvLast EXCEPT ![from] = t]
  /\ convIssued' = convIssued + 1
  /\ convReqs' = [convReqs EXCEPT ![convIssued + 1].state = "sent"]
  /\ UNCHANGED conversations
  /\ UNCHANGED <<callvars, duovars, chanvars, app>>

\* The server answers request n from what it holds at that moment.
ConvServe(n) ==
  /\ convReqs[n].state = "sent"
  /\ convReqs' = [convReqs EXCEPT ![n] = [state |-> "served",
                                          data |-> ServerConversations]]
  /\ UNCHANGED <<conversations, convIssued, srvLast>>
  /\ UNCHANGED <<callvars, duovars, chanvars, msgvars, app>>

\* loadConversations() after the await, the try branch:
\* setConversations(response.data).
ConvResolve(n) ==
  /\ convReqs[n].state = "served"
  /\ conversations' = convReqs[n].data
  /\ convReqs' = [convReqs EXCEPT ![n].state = "resolved"]
  /\ convLoads' = convLoads - 1
  /\ UNCHANGED <<convIssued, srvLast>>
  /\ UNCHANGED <<messages, loads, posts, mountUserId, now, srvNow>>
  /\ UNCHANGED <<callvars, duovars, chanvars, app>>

\* loadConversations() after the await, the catch branch: console.error.
ConvReject(n) ==
  /\ convReqs[n].state \in {"sent", "served"}
  /\ convReqs' = [convReqs EXCEPT ![n].state = "failed"]
  /\ convLoads' = convLoads - 1
  /\ UNCHANGED <<conversations, convIssued, srvLast>>
  /\ UNCHANGED <<messages, loads, posts, mountUserId, now, srvNow>>
  /\ UNCHANGED <<callvars, duovars, chanvars, app>>

\* The conversation list of a mounted Messages: the load of the mount
\* effect and one more for every new_message.
ConvNext ==
  \/ SocketConnect
  \/ \E p \in Users, t \in Times : ConvNewMessage(p, t)
  \/ \E n \in ConvRequests : ConvServe(n)
  \/ \E n \in ConvRequests : ConvResolve(n)
  \/ \E n \in ConvRequests : ConvReject(n)

ConvSpec == MsgInit /\ [][ConvNext]_vars

\* App from page load on.  Everything below App is left as it is.
AppStep(a) ==
  /\ app' = a
  /\ UNCHANGED <<callvars, duovars, chanvars, msgvars, convvars>>

\* The mount effect of App.
CheckAuth ==
  /\ app.me = "unrun"
  /\ AppStep(checkAuth(app))

\* GET /auth/me answers 200: the server accepts the token it was sent.
AuthMeAccepted ==
  /\ app.me = "pending"
  /\ app.requests[Len(app.requests)].authorization \in ValidTokens
  /\ AppStep(checkAuthAccepted(app))

\* GET /auth/me fails: the server rejects the token, or the request fails.
AuthMeRejected ==
  /\ app.me = "pending"
  /\ AppStep(checkAuthRejected(app))

\* AuthPage handleSubmit up to its await.
LoginSubmit ==
  /\ View(app) = "unauthenticated"
  /\ ~app.login
  /\ Len(app.requests) < MaxRequests
  /\ AppStep([request(app, "/auth/login") EXCEPT !.login = TRUE])

\* AuthPage handleSubmit after the await: onLogin(user, token) with the
\* token the server issued.
LoginAccepted ==
  /\ app.login
  /\ \E token \in ValidTokens :
       AppStep([handleLogin(app, token) EXCEPT !.login = FALSE])

LoginRejected ==
  /\ app.login
  /\ AppStep([app EXCEPT !.login = FALSE])

\* The logout button of MainLayout.
Logout ==
  /\ View(app) = "authenticated"
  /\ AppStep(handleLogout(app))

\* A screen of the authenticated view loads its data.
Fetch ==
  /\ View(app) = "authenticated"
  /\ Len(app.requests) < MaxRequests
  /\ AppStep(request(app, "/posts/feed"))

\* Profile handleSubmit up to its await, and its try branch: setUser.
ProfileSubmit ==
  /\ View(app) = "authenticated"
  /\ ~app.put
  /\ Len(app.requests) < MaxRequests
  /\ AppStep([request(app, "/auth/profile") EXCEPT !.put = TRUE])

ProfileSaved ==
  /\ app.put
  /\ AppStep([app EXCEPT !.put = FALSE, !.user = Account])

AppInit ==
  /\ responder = InitSt
  /\ delivered = 0
  /\ MessagesMounted(NoUser)
  /\ ConvMounted
  /\ CallInit(NoUser)
  /\ \E token \in Tokens \cup {NoToken} : app = AppStart(token)

AppNext ==
  \/ CheckAuth
  \/ AuthMeAccepted
  \/ AuthMeRejected
  \/ LoginSubmit
  \/ LoginAccepted
  \/ LoginRejected
  \/ Logout
  \/ Fetch
  \/ ProfileSubmit
  \/ ProfileSaved

AppSpec == AppInit /\ [][AppNext]_vars

----------------------------------------------------------------------------
\* Properties.

Released(p) == \A k \in Kinds : p.tracks[k] # "live"
Acquired(p) == p.acq = "ok"
TornDown(s) == s <= nsessions /\ mounted # s
FailedStatus == "Failed to access camera/microphone"

\* C1: however hangup is invoked (end-call button, the peer's 'close',
\* unmount), a session's onEnd is delivered at most once, its local tracks
\* are released once the session has ended, and cleanup never throws.
C1_HangupIdempotent ==
  /\ outcome # "threw cleanup"
  /\ \A s \in Sessions :
       /\ sess[s].onEnd <= 1
       /\ (sess[s].onEnd >= 1 /\ Acquired(sess[s]) => Released(sess[s]))

\* C2: when the peer of a session with acquired tracks emits 'close', every
\* local track is stopped, the peer is destroyed and onEnd is called.
C2_PeerCloseTearsDown ==
  [][\A s \in Sessions :
       (PeerClose(s) /\ Acquired(sess[s]))
         => /\ Released(sess'[s])
            /\ sess'[s].peer = "destroyed"
            /\ sess'[s].onEnd > sess[s].onEnd]_vars

\* C3: once a session is torn down (its view unmounted, by whatever path),
\* none of its local tracks is live and its peer is not live.
C3_TornDownReleased ==
  \A s \in Sessions :
    TornDown(s) => Released(sess[s]) /\ sess[s].peer # "live"

\* C4: when the peer of the mounted session reports 'error', the status
\* becomes the error status, the local tracks are released and the peer is
\* destroyed.
C4_ErrorReleases ==
  [][\A s \in Sessions :
       (PeerError(s) /\ mounted = s)
         => /\ sess'[s].callStatus = "Connection error"
            /\ Released(sess'[s])
            /\ sess'[s].peer = "destroyed"]_vars

\* C5: a session whose media acquisition failed has no peer and has emitted
\* no call_user event, ever after; while its view is mounted its status is
\* 'Failed to access camera/microphone'.
C5_MediaFailure ==
  \A s \in Sessions :
    sess[s].acq = "failed"
      => /\ sess[s].peer = "none"
         /\ \A i \in DOMAIN emitted : emitted[i].session # s
         /\ (mounted = s => sess[s].callStatus = FailedStatus)

\* C5 witness: a mounted session whose acquisition failed and whose status
\* shows it.
C5_Witness ==
  \E s \in Sessions :
    /\ sess[s].acq = "failed"
    /\ mounted = s
    /\ sess[s].callStatus = FailedStatus

\* C6: hangup never throws, in whatever state it is invoked, and the end-call
\* button always ends the session: when its handler has run, onEnd was
\* called for the session it was pressed in, callActive is false and the
\* call view is unmounted.
C6_HangupAlways ==
  /\ outcome # "threw cleanup"
  /\ outcome = "hangup"
       => /\ ~callActive
          /\ mounted = 0
          /\ sess[nsessions].onEnd >= 1

\* C6 witness: the end-call button was pressed while getUserMedia was still
\* pending and no peer existed.
C6_Witness ==
  /\ outcome = "hangup"
  /\ sess[nsessions].acq = "pending"
  /\ sess[nsessions].peer = "none"

\* C7: at most one peer is live at any time, and a session has a peer only
\* if every earlier session is torn down with all its tracks released.
C7_OneLivePeer ==
  /\ Cardinality({s \in Sessions : sess[s].peer = "live"}) <= 1
  /\ \A s, t \in Sessions :
       (s < t /\ sess[t].peer # "none")
         => TornDown(s) /\ Released(sess[s])

\* C8: an incoming_call descriptor from the counterpart makes a session
\* without a peer construct one as Responder and feed it the descriptor; a
\* session with a live peer feeds the descriptor into it.
C8_IncomingCallResponder ==
  [][\A s \in Sessions :
       (/\ s \in listeners["incoming_call"]
        /\ sess[s].peer # "destroyed"
        /\ IncomingCall(sess[s].recipientId, Descriptor))
         => /\ sess'[s].peer = "live"
            /\ (sess[s].peer = "none" => ~sess'[s].initiator)
            /\ [signal |-> Descriptor, from |-> sess[s].recipientId]
                 \in sess'[s].fed]_vars

\* C9: a candidate of the counterpart that arrives before the session's peer
\* has its descriptor (or before the peer exists) is not lost: it is applied
\* to, or kept for, the peer.
C9_EarlyCandidateKept ==
  [][\A s \in Sessions :
       (/\ s \in listeners["ice_candidate"]
        /\ sess[s].peer # "destroyed"
        /\ [signal |-> Descriptor, from |-> sess[s].recipientId]
             \notin sess[s].fed
        /\ IceCandidate(sess[s].recipientId, Candidate))
         => [signal |-> Candidate, from |-> sess[s].recipientId]
              \in sess'[s].fed]_vars

\* C10: an incoming_call, call_accepted or ice_candidate that does not come
\* from the session's counterpart changes no session state (in particular
\* it is not fed into the peer).
C10_ForeignSignalIgnored ==
  [][\A u \in Users, d \in Signals :
       (/\ mounted # 0
        /\ u # sess[mounted].recipientId
        /\ sess[mounted].peer # "destroyed"
        /\ (IncomingCall(u, d) \/ CallAccepted(u, d) \/ IceCandidate(u, d)))
         => UNCHANGED sess]_vars

\* The call_user events that session s has emitted, in order.
EmittedBy(s) == SelectSeq(emitted, LAMBDA e : e.session = s)

\* C12: every signal a session's peer produces (its descriptor, then each
\* candidate) is forwarded as exactly one call_user event, in order, whose
\* to_user_id is the recipient id of the session and whose type is 'offer'
\* for an Initiator session and 'answer' for a Responder session.
C12_SignalForwarded ==
  /\ \A i \in DOMAIN emitted :
       /\ emitted[i].event = "call_user"
       /\ emitted[i].to_user_id = sess[emitted[i].session].recipientId
       /\ emitted[i].type =
            IF sess[emitted[i].session].initiator THEN "offer" ELSE "answer"
  /\ \A s \in Sessions :
       sess[s].peer = "live"
         => /\ Len(EmittedBy(s)) = sess[s].nsignals
            /\ \A k \in DOMAIN EmittedBy(s) :
                 EmittedBy(s)[k].signal =
                   IF k = 1 THEN Descriptor ELSE Candidate

\* C12 witness: a live peer has produced its descriptor and a candidate, and
\* both were emitted to the recipient of its session.
C12_Witness ==
  \E s \in Sessions :
    /\ sess[s].peer = "live"
    /\ sess[s].nsignals = 2
    /\ EmittedBy(s) =
         << [event |-> "call_user", to_user_id |-> sess[s].recipientId,
             signal |-> Descriptor, type |-> "offer", session |-> s],
            [event |-> "call_user", to_user_id |-> sess[s].recipientId,
             signal |-> Candidate, type |-> "offer", session |-> s] >>

\* The called client has a session, and it has ended.
ResponderEnded == \E s \in Sessions : responder.sess[s].onEnd >= 1

\* The relay has passed the descriptor and a candidate of session s on.
Relayed(s) ==
  /\ Len(EmittedBy(s)) >= 2
  /\ delivered = Len(emitted)

\* C11: in a run of two clients in which one starts a video call to the other
\* over the relay, the status of the calling session only moves along
\* Connecting, Calling, Connected; once its descriptor and a candidate are
\* relayed it becomes Connected (unless the call is ended or fails before);
\* and after the caller hangs up a call whose offer was relayed, the called
\* client's session reaches Ended.
C11_TwoClientCall ==
  /\ [][\A s \in Sessions :
         /\ (sess'[s].callStatus = "Calling..."
               => sess[s].callStatus \in {"Connecting...", "Calling..."})
         /\ (sess'[s].callStatus = "Connected"
               => sess[s].callStatus \in {"Calling...", "Connected"})]_vars
  /\ \A s \in Sessions :
       (mounted = s /\ sess[s].peer = "live" /\ Relayed(s))
         ~> (sess[s].callStatus = "Connected" \/ mounted # s
               \/ sess[s].peer # "live")
  /\ (outcome = "hangup" /\ delivered >= 1) ~> ResponderEnded

\* C13: on every connection of the transport the authenticate event goes out
\* before every call_user and send_message event sent on that connection.
C13_AuthenticateFirst == wire # <<>> => wire[1] = "authenticate"

\* The thread a message belongs to: the user it is exchanged with.
ThreadOf(message) ==
  IF message.from_user_id = Self THEN message.to_user_id
  ELSE message.from_user_id

\* log holds messages of the thread of partnerId only.
OnlyThread(log, partnerId) ==
  \A i \in DOMAIN log : ThreadOf(log[i]) = partnerId

\* old is an initial part of new: nothing of old was removed or moved.
IsPrefix(old, new) ==
  /\ Len(old) <= Len(new)
  /\ \A i \in DOMAIN old : new[i] = old[i]

\* C14: a thread load that resolves for a partner who is no longer the open
\* thread is discarded (the visible log is left as it is), and when the last
\* pending load has resolved, in whatever order, the visible log holds
\* messages of the open thread only.
C14_StaleLoadDiscarded ==
  [][\A p \in Users :
       LoadMessagesResolve(p)
         => /\ (p # userId => messages' = messages)
            /\ (loads' = {} /\ userId # NoUser
                  => OnlyThread(messages', userId))]_vars

\* C15: a thread switch discards the log of the prior thread: right after the
\* switch to a thread (its load pending) the visible log holds no message of
\* another thread, and neither does it when that load has failed.
C15_SwitchDiscardsLog ==
  [][/\ \A u \in Users : OpenThread(u) => OnlyThread(messages', u)
     /\ \A p \in Users :
          (LoadMessagesReject(p) /\ p = userId)
            => OnlyThread(messages', userId)]_vars

\* C16: an inbound new_message is appended to the visible log exactly when
\* its from_user_id or to_user_id is the partner of the thread open when it
\* arrives, and it always starts a reload of the conversation list.
C16_InboundByOpenThread ==
  [][\A p \in Users, t \in Times :
       \A ends \in {<<p, Self>>, <<Self, p>>} :
         NewMessage(ends[1], ends[2], t)
           => /\ messages' =
                   IF userId # NoUser /\ userId \in {ends[1], ends[2]}
                   THEN Append(messages, ServerMessage(ends[1], ends[2], t))
                   ELSE messages
              /\ convLoads' = convLoads + 1]_vars

\* C17: sendMessage with non-blank content and an open thread, called while
\* the socket is not connected, issues POST /messages {to_user_id, content}
\* and emits nothing on the socket; when the call has completed the log is
\* the log it was called with plus one provisional message.
C17_SendWhileDisconnected ==
  [][/\ \A content \in Contents :
          (SendMessage(content) /\ ~connected)
            => /\ \E post \in posts' \ posts :
                    /\ post.to_user_id = userId
                    /\ post.content = content
               /\ UNCHANGED <<wire, sendBuffer>>
     /\ \A post \in posts :
          (PostResolve(post) \/ PostReject(post))
            => messages' = Append(post.messages,
                                  Provisional(post.to_user_id, post.content))]_vars

\* C18: on both send paths the provisional message is in the log as soon as
\* sendMessage is called, before the REST write resolves, and it is in the
\* log after the REST write has failed.
C18_ProvisionalAtOnce ==
  [][/\ \A content \in Contents :
          SendMessage(content)
            => messages' = Append(messages, Provisional(userId, content))
     /\ \A post \in posts :
          PostReject(post)
            => \E i \in DOMAIN messages' :
                 /\ messages'[i].id # "srv"
                 /\ messages'[i].to_user_id = post.to_user_id
                 /\ messages'[i].content = post.content]_vars

\* C19: while a thread stays open, no send and no inbound event removes a
\* message from its visible log: such a step leaves the log as it was or
\* appends to it.
C19_AppendOnly ==
  [][(userId' = userId /\ loads' = loads) => IsPrefix(messages, messages')]_vars

\* C20: the visible log is ordered by created_at ascending (messages of equal
\* created_at stay in arrival order, which is the order they were appended).
C20_OrderedByCreatedAt ==
  \A i, j \in DOMAIN messages :
    i < j => messages[i].created_at <= messages[j].created_at

\* A session has ended: its onEnd was called or its view is unmounted.
Ended(s) == s <= nsessions /\ (sess[s].onEnd >= 1 \/ mounted # s)

\* C26: once a session has ended (hangup or unmount), no step creates a peer
\* for it, makes one of its tracks live or emits a call_user event for it,
\* and none of its tracks is live after the step; also when getUserMedia
\* was pending at the hangup and resolves after it.
C26_EndedStaysEnded ==
  [][\A s \in Sessions :
       Ended(s)
         => /\ (sess'[s].peer = "live" => sess[s].peer = "live")
            /\ \A k \in Kinds :
                 sess'[s].tracks[k] = "live" => sess[s].tracks[k] = "live"
            /\ Len(SelectSeq(emitted', LAMBDA e : e.session = s))
                 = Len(EmittedBy(s))]_vars

\* C27: when the REST write of a sendMessage resolves after the open thread
\* has changed, the visible log of the thread now open holds neither the
\* provisional message nor any message of the thread it was sent in.
C27_SendAcrossSwitch ==
  [][\A post \in posts :
       (PostResolve(post) /\ userId # NoUser /\ post.to_user_id # userId)
         => OnlyThread(messages', userId)]_vars

\* The state after the mute button was pressed twice in session s.
MuteTwice(s) == toggleMute(toggleMute(St, s), s)

\* C22: pressing mute twice in a session with acquired tracks returns the
\* enabled flag of every audio track and the muted flag to what they were,
\* which for a session that was not muted is: muted false.
C22_MuteTwice ==
  \A s \in Sessions :
    (mounted = s /\ Acquired(sess[s]))
      => /\ MuteTwice(s).sess[s].enabled = sess[s].enabled
         /\ MuteTwice(s).sess[s].isMuted = sess[s].isMuted
         /\ toggleMute(St, s).sess[s].isMuted # sess[s].isMuted
         /\ (~sess[s].isMuted => ~MuteTwice(s).sess[s].isMuted)

\* C22 witness: mute was pressed once in a session with acquired tracks.
C22_Witness ==
  \E s \in Sessions :
    /\ mounted = s
    /\ Acquired(sess[s])
    /\ sess[s].isMuted
    /\ ~sess[s].enabled["audio"]

\* st and the present state differ at most in the track enablement and the
\* muted / video-off flags of session s.
OnlyToggled(st, s) ==
  St = [st EXCEPT !.sess[s].enabled = sess[s].enabled,
                  !.sess[s].isMuted = sess[s].isMuted,
                  !.sess[s].isVideoOff = sess[s].isVideoOff]

\* C23: in every state of a session in which they can be pressed, toggleMute
\* and toggleVideo leave callStatus, the peer, the remote stream and
\* everything else but track enablement and the two flags unchanged, and
\* emit nothing on the socket.
C23_TogglesFrame ==
  \A s \in Sessions :
    mounted = s
      => /\ OnlyToggled(toggleMute(St, s), s)
         /\ OnlyToggled(toggleVideo(St, s), s)
         /\ toggleMute(St, s).emitted = emitted
         /\ toggleVideo(St, s).emitted = emitted

\* C23 witness: video was switched off in a connected video call, whose
\* peer is live.
C23_Witness ==
  \E s \in Sessions :
    /\ mounted = s
    /\ sess[s].callStatus = "Connected"
    /\ sess[s].peer = "live"
    /\ sess[s].isVideoOff
    /\ ~sess[s].enabled["video"]

\* C24: in an audio call toggleVideo changes nothing, and the video-off flag
\* is true, as it is from the start.
C24_AudioOnlyNoVideo ==
  \A s \in Sessions :
    (mounted = s /\ sess[s].callType = "audio")
      => /\ toggleVideo(St, s) = St
         /\ sess[s].isVideoOff

\* C24 witness: an audio call with acquired tracks, muted or not.
C24_Witness ==
  \E s \in Sessions :
    /\ mounted = s
    /\ sess[s].callType = "audio"
    /\ Acquired(sess[s])
    /\ sess[s].tracks["audio"] = "live"
    /\ sess[s].isVideoOff

\* C29: in a mounted session with acquired tracks the muted flag is the
\* negation of the audio track's enabled flag and, in a video call, the
\* video-off flag is the negation of the video track's enabled flag; before
\* tracks are acquired neither toggle changes anything.
C29_FlagsMirrorTracks ==
  \A s \in Sessions :
    mounted = s
      => IF Acquired(sess[s])
         THEN /\ sess[s].isMuted = ~sess[s].enabled["audio"]
              /\ (sess[s].callType = "video"
                    => sess[s].isVideoOff = ~sess[s].enabled["video"])
         ELSE /\ toggleMute(St, s) = St
              /\ toggleVideo(St, s) = St

\* C29 witness: a video call that is muted with its video on.
C29_Witness ==
  \E s \in Sessions :
    /\ mounted = s
    /\ Acquired(sess[s])
    /\ sess[s].callType = "video"
    /\ sess[s].isMuted
    /\ ~sess[s].isVideoOff
    /\ sess[s].enabled["video"]

\* C25: when a call session unsubscribes from the socket (off for
\* incoming_call, call_accepted and ice_candidate), the handlers of other
\* event types stay registered: Messages' new_message handler is on the
\* socket in every state, so a new_message that arrives after any number of
\* sessions have come and gone is still handled.
C25_OtherHandlersKept ==
  /\ listeners["new_message"] = {MessagesHandler}
  /\ \A e \in CallEvents : listeners[e] \subseteq {mounted} \ {0}

\* A session has ended and unsubscribed, the socket is connected with the
\* new_message handler on it, and a new_message has been appended to the
\* log of the open thread.
C25_Witness ==
  /\ nsessions >= 1
  /\ mounted = 0
  /\ \A e \in CallEvents : listeners[e] = {}
  /\ Len(messages) >= 1
  /\ messages[Len(messages)].created_at > 1
  /\ sess[1].onEnd >= 1
  /\ connected
  /\ MessagesHandler \in listeners["new_message"]

\* No GET /messages/conversations is in flight and the one issued last was
\* answered.
ConvSettled ==
  /\ \A n \in ConvRequests : convReqs[n].state \notin {"sent", "served"}
  /\ convReqs[convIssued].state = "resolved"

ByTimeDescending(list) ==
  \A i, j \in DOMAIN list :
    i < j => list[i].last_message_time > list[j].last_message_time

\* C28: when several loadConversations requests have been in flight, once
\* all of them have resolved the conversation list equals the response to
\* the request issued last, whatever the order the responses arrived in;
\* a failed load leaves the list unchanged.
C28_LastIssuedWins ==
  [][/\ ConvSettled' => conversations' = convReqs'[convIssued'].data
     /\ \A n \in ConvRequests :
          ConvReject(n) => conversations' = conversations]_vars

\* C21: the conversation list is shown by last_message_time descending, and
\* it is re-ordered when a message event arrives: once the loads that the
\* events started have resolved, the list is the server's conversations in
\* the order of their latest messages ([B, A], and [A, B] after a message
\* from A).
C21_OrderedAndReordered ==
  /\ ByTimeDescending(conversations)
  /\ ConvSettled => conversations = ServerConversations

\* C30: a bearer token is attached to every REST request while one is
\* stored (and none otherwise); the authenticated view is shown only after
\* the server has accepted the stored token or issued one at login; when
\* startup finds no token, or GET /auth/me fails, the user stays unset, no
\* token is left in storage and loading ends, so the unauthenticated view
\* is shown; logout removes the token and unsets the user.
C30_TokenAndView ==
  [][/\ Len(app'.requests) > Len(app.requests) =>
          app'.requests[Len(app'.requests)].authorization =
            IF app.token \in Tokens THEN app.token ELSE NoHeader
     /\ View(app') = "authenticated" => app'.vouched
     /\ (app.me \in {"unrun", "pending"} /\ app'.me \in {"none", "rejected"})
          => /\ app'.user = NoOne
             /\ app'.token = NoToken
             /\ View(app') = "unauthenticated"
     /\ (app.me = "pending" /\ app'.me = "accepted")
          => app'.token \in ValidTokens /\ app'.token = app.token
     /\ (app.user # NoOne /\ app'.user = NoOne)
          => app'.token = NoToken /\ View(app') = "unauthenticated"]_vars

\* Startup with a token that GET /auth/me rejected: the request carried it,
\* and the unauthenticated view is shown with nothing left in storage.
C30_Witness ==
  /\ app.me = "rejected"
  /\ app.requests[1] = [path |-> "/auth/me", authorization |-> "t0"]
  /\ app.token = NoToken
  /\ View(app) = "unauthenticated"

====
